--------------------------- MODULE Spec2Model ---------------------------
(***************************************************************************)
(* A model of codebase2xml (src/src/codebase2xml/core.py, cli.py): the     *)
(* type classifier, the ignore filter, the content sanitizer, the metadata *)
(* extractor, the structure builder and the archive assembler.             *)
(*                                                                         *)
(* Names, paths, patterns and classification tags are sequences of         *)
(* one-character strings; file contents are sequences of code points.      *)
(***************************************************************************)
EXTENDS Integers, Sequences, FiniteSets, TLC

\* ------------------------------------------------------------------ bounds
\* entries below the root in a modelled directory tree
MaxEntries == 3
\* code points in a modelled file content
MaxTextLen == 3
\* characters in a pattern / a name given to the ignore filter
MaxPatLen == 3
\* code points in a text given to the sanitizer
MaxCleanLen == 2
\* calls of detect_type on one name
MaxCalls == 2

\* ------------------------------------------------------------ static tables
\* FileTypeDetector.PROGRAMMING_EXTENSIONS
PROGRAMMING_EXTENSIONS ==
       (<<".","p","y">> :> <<"p","y","t","h","o","n">>)
    @@ (<<".","j","s">> :> <<"j","a","v","a","s","c","r","i","p","t">>)
    @@ (<<".","t","s">> :> <<"t","y","p","e","s","c","r","i","p","t">>)
    @@ (<<".","j","a","v","a">> :> <<"j","a","v","a">>)
    @@ (<<".","c","p","p">> :> <<"c","p","p">>)
    @@ (<<".","c">> :> <<"c">>)
    @@ (<<".","h">> :> <<"h","e","a","d","e","r">>)
    @@ (<<".","h","p","p">> :> <<"h","e","a","d","e","r">>)
    @@ (<<".","c","s">> :> <<"c","s","h","a","r","p">>)
    @@ (<<".","p","h","p">> :> <<"p","h","p">>)
    @@ (<<".","r","b">> :> <<"r","u","b","y">>)
    @@ (<<".","g","o">> :> <<"g","o">>)
    @@ (<<".","r","s">> :> <<"r","u","s","t">>)
    @@ (<<".","s","w","i","f","t">> :> <<"s","w","i","f","t">>)
    @@ (<<".","k","t">> :> <<"k","o","t","l","i","n">>)
    @@ (<<".","s","c","a","l","a">> :> <<"s","c","a","l","a">>)
    @@ (<<".","r">> :> <<"r">>)
    @@ (<<".","m">> :> <<"m","a","t","l","a","b">>)
    @@ (<<".","s","h">> :> <<"s","h","e","l","l">>)
    @@ (<<".","b","a","s","h">> :> <<"s","h","e","l","l">>)
    @@ (<<".","z","s","h">> :> <<"s","h","e","l","l">>)
    @@ (<<".","f","i","s","h">> :> <<"s","h","e","l","l">>)
    @@ (<<".","p","s","1">> :> <<"p","o","w","e","r","s","h","e","l","l">>)
    @@ (<<".","s","q","l">> :> <<"s","q","l">>)
    @@ (<<".","p","l">> :> <<"p","e","r","l">>)
    @@ (<<".","l","u","a">> :> <<"l","u","a">>)
    @@ (<<".","d","a","r","t">> :> <<"d","a","r","t">>)
    @@ (<<".","e","l","m">> :> <<"e","l","m">>)
    @@ (<<".","e","x">> :> <<"e","l","i","x","i","r">>)
    @@ (<<".","e","x","s">> :> <<"e","l","i","x","i","r">>)
    @@ (<<".","c","l","j">> :> <<"c","l","o","j","u","r","e">>)
    @@ (<<".","h","s">> :> <<"h","a","s","k","e","l","l">>)
    @@ (<<".","m","l">> :> <<"o","c","a","m","l">>)
    @@ (<<".","f","s">> :> <<"f","s","h","a","r","p">>)
    @@ (<<".","v","b">> :> <<"v","b","a","s","i","c">>)

\* FileTypeDetector.CONFIG_EXTENSIONS
CONFIG_EXTENSIONS ==
       (<<".","j","s","o","n">> :> <<"j","s","o","n">>)
    @@ (<<".","y","a","m","l">> :> <<"y","a","m","l">>)
    @@ (<<".","y","m","l">> :> <<"y","a","m","l">>)
    @@ (<<".","t","o","m","l">> :> <<"t","o","m","l">>)
    @@ (<<".","i","n","i">> :> <<"i","n","i">>)
    @@ (<<".","c","f","g">> :> <<"c","o","n","f","i","g">>)
    @@ (<<".","c","o","n","f">> :> <<"c","o","n","f","i","g">>)
    @@ (<<".","p","r","o","p","e","r","t","i","e","s">> :> <<"p","r","o","p","e","r","t","i","e","s">>)
    @@ (<<".","e","n","v">> :> <<"e","n","v","i","r","o","n","m","e","n","t">>)
    @@ (<<".","d","o","c","k","e","r","i","g","n","o","r","e">> :> <<"d","o","c","k","e","r">>)
    @@ (<<".","g","i","t","i","g","n","o","r","e">> :> <<"g","i","t">>)
    @@ (<<".","g","i","t","a","t","t","r","i","b","u","t","e","s">> :> <<"g","i","t">>)
    @@ (<<".","e","d","i","t","o","r","c","o","n","f","i","g">> :> <<"e","d","i","t","o","r">>)

\* FileTypeDetector.DOCUMENTATION_EXTENSIONS
DOCUMENTATION_EXTENSIONS ==
       (<<".","m","d">> :> <<"m","a","r","k","d","o","w","n">>)
    @@ (<<".","r","s","t">> :> <<"r","e","s","t","r","u","c","t","u","r","e","d","t","e","x","t">>)
    @@ (<<".","t","x","t">> :> <<"t","e","x","t">>)
    @@ (<<".","d","o","c">> :> <<"w","o","r","d">>)
    @@ (<<".","d","o","c","x">> :> <<"w","o","r","d">>)
    @@ (<<".","p","d","f">> :> <<"p","d","f">>)
    @@ (<<".","r","t","f">> :> <<"r","t","f">>)
    @@ (<<".","t","e","x">> :> <<"l","a","t","e","x">>)
    @@ (<<".","o","r","g">> :> <<"o","r","g","-","m","o","d","e">>)
    @@ (<<".","w","i","k","i">> :> <<"w","i","k","i">>)

\* FileTypeDetector.WEB_EXTENSIONS
WEB_EXTENSIONS ==
       (<<".","h","t","m","l">> :> <<"h","t","m","l">>)
    @@ (<<".","h","t","m">> :> <<"h","t","m","l">>)
    @@ (<<".","x","m","l">> :> <<"x","m","l">>)
    @@ (<<".","x","h","t","m","l">> :> <<"x","h","t","m","l">>)
    @@ (<<".","c","s","s">> :> <<"c","s","s">>)
    @@ (<<".","s","c","s","s">> :> <<"s","c","s","s">>)
    @@ (<<".","s","a","s","s">> :> <<"s","a","s","s">>)
    @@ (<<".","l","e","s","s">> :> <<"l","e","s","s">>)
    @@ (<<".","v","u","e">> :> <<"v","u","e">>)
    @@ (<<".","j","s","x">> :> <<"j","s","x">>)
    @@ (<<".","t","s","x">> :> <<"t","s","x">>)
    @@ (<<".","s","v","e","l","t","e">> :> <<"s","v","e","l","t","e">>)

\* FileTypeDetector.DATA_EXTENSIONS
DATA_EXTENSIONS ==
       (<<".","c","s","v">> :> <<"c","s","v">>)
    @@ (<<".","t","s","v">> :> <<"t","s","v">>)
    @@ (<<".","x","l","s","x">> :> <<"e","x","c","e","l">>)
    @@ (<<".","x","l","s">> :> <<"e","x","c","e","l">>)
    @@ (<<".","o","d","s">> :> <<"s","p","r","e","a","d","s","h","e","e","t">>)
    @@ (<<".","s","q","l","i","t","e">> :> <<"s","q","l","i","t","e">>)
    @@ (<<".","d","b">> :> <<"d","a","t","a","b","a","s","e">>)
    @@ (<<".","p","a","r","q","u","e","t">> :> <<"p","a","r","q","u","e","t">>)
    @@ (<<".","a","r","r","o","w">> :> <<"a","r","r","o","w">>)
    @@ (<<".","a","v","r","o">> :> <<"a","v","r","o">>)

\* FileTypeDetector.MEDIA_EXTENSIONS
MEDIA_EXTENSIONS ==
       (<<".","p","n","g">> :> <<"i","m","a","g","e">>)
    @@ (<<".","j","p","g">> :> <<"i","m","a","g","e">>)
    @@ (<<".","j","p","e","g">> :> <<"i","m","a","g","e">>)
    @@ (<<".","g","i","f">> :> <<"i","m","a","g","e">>)
    @@ (<<".","s","v","g">> :> <<"v","e","c","t","o","r">>)
    @@ (<<".","i","c","o">> :> <<"i","c","o","n">>)
    @@ (<<".","b","m","p">> :> <<"i","m","a","g","e">>)
    @@ (<<".","t","i","f","f">> :> <<"i","m","a","g","e">>)
    @@ (<<".","m","p","4">> :> <<"v","i","d","e","o">>)
    @@ (<<".","a","v","i">> :> <<"v","i","d","e","o">>)
    @@ (<<".","m","o","v">> :> <<"v","i","d","e","o">>)
    @@ (<<".","w","m","v">> :> <<"v","i","d","e","o">>)
    @@ (<<".","m","p","3">> :> <<"a","u","d","i","o">>)
    @@ (<<".","w","a","v">> :> <<"a","u","d","i","o">>)
    @@ (<<".","f","l","a","c">> :> <<"a","u","d","i","o">>)
    @@ (<<".","o","g","g">> :> <<"a","u","d","i","o">>)

\* FileTypeDetector.SPECIAL_FILES
SPECIAL_FILES ==
       (<<"R","E","A","D","M","E">> :> <<"d","o","c","u","m","e","n","t","a","t","i","o","n">>)
    @@ (<<"L","I","C","E","N","S","E">> :> <<"l","i","c","e","n","s","e">>)
    @@ (<<"C","H","A","N","G","E","L","O","G">> :> <<"d","o","c","u","m","e","n","t","a","t","i","o","n">>)
    @@ (<<"C","O","N","T","R","I","B","U","T","I","N","G">> :> <<"d","o","c","u","m","e","n","t","a","t","i","o","n">>)
    @@ (<<"I","N","S","T","A","L","L">> :> <<"d","o","c","u","m","e","n","t","a","t","i","o","n">>)
    @@ (<<"M","A","N","I","F","E","S","T">> :> <<"m","a","n","i","f","e","s","t">>)
    @@ (<<"M","a","k","e","f","i","l","e">> :> <<"b","u","i","l","d">>)
    @@ (<<"m","a","k","e","f","i","l","e">> :> <<"b","u","i","l","d">>)
    @@ (<<"C","M","a","k","e","L","i","s","t","s",".","t","x","t">> :> <<"b","u","i","l","d">>)
    @@ (<<"D","o","c","k","e","r","f","i","l","e">> :> <<"d","o","c","k","e","r">>)
    @@ (<<"d","o","c","k","e","r","-","c","o","m","p","o","s","e",".","y","m","l">> :> <<"d","o","c","k","e","r">>)
    @@ (<<"d","o","c","k","e","r","-","c","o","m","p","o","s","e",".","y","a","m","l">> :> <<"d","o","c","k","e","r">>)
    @@ (<<"r","e","q","u","i","r","e","m","e","n","t","s",".","t","x","t">> :> <<"d","e","p","e","n","d","e","n","c","i","e","s">>)
    @@ (<<"p","a","c","k","a","g","e",".","j","s","o","n">> :> <<"d","e","p","e","n","d","e","n","c","i","e","s">>)
    @@ (<<"s","e","t","u","p",".","p","y">> :> <<"s","e","t","u","p">>)
    @@ (<<"s","e","t","u","p",".","c","f","g">> :> <<"s","e","t","u","p">>)
    @@ (<<"p","y","p","r","o","j","e","c","t",".","t","o","m","l">> :> <<"s","e","t","u","p">>)
    @@ (<<"C","a","r","g","o",".","t","o","m","l">> :> <<"d","e","p","e","n","d","e","n","c","i","e","s">>)
    @@ (<<"p","o","m",".","x","m","l">> :> <<"d","e","p","e","n","d","e","n","c","i","e","s">>)
    @@ (<<"b","u","i","l","d",".","g","r","a","d","l","e">> :> <<"b","u","i","l","d">>)
    @@ (<<"p","a","c","k","a","g","e","-","l","o","c","k",".","j","s","o","n">> :> <<"l","o","c","k","f","i","l","e">>)
    @@ (<<"y","a","r","n",".","l","o","c","k">> :> <<"l","o","c","k","f","i","l","e">>)
    @@ (<<"P","i","p","f","i","l","e",".","l","o","c","k">> :> <<"l","o","c","k","f","i","l","e">>)

\* excerpt of the host MIME table consulted by mimetypes.guess_type
MimeTypesMap ==
       (<<".","z","i","p">> :> <<"a","p","p","l","i","c","a","t","i","o","n","/","z","i","p">>)
    @@ (<<".","b","a","t">> :> <<"a","p","p","l","i","c","a","t","i","o","n","/","x","-","m","s","d","o","s","-","p","r","o","g","r","a","m">>)
    @@ (<<".","i","e","f">> :> <<"i","m","a","g","e","/","i","e","f">>)
    @@ (<<".","m","p","e","g">> :> <<"v","i","d","e","o","/","m","p","e","g">>)
    @@ (<<".","a","u">> :> <<"a","u","d","i","o","/","b","a","s","i","c">>)
    @@ (<<".","e","m","l">> :> <<"m","e","s","s","a","g","e","/","r","f","c","8","2","2">>)
    @@ (<<".","g","z">> :> <<"a","p","p","l","i","c","a","t","i","o","n","/","g","z","i","p">>)
    @@ (<<".","t","a","r">> :> <<"a","p","p","l","i","c","a","t","i","o","n","/","x","-","t","a","r">>)
    @@ (<<".","s","v","g">> :> <<"i","m","a","g","e","/","s","v","g","+","x","m","l">>)
    @@ (<<".","t","x","t">> :> <<"t","e","x","t","/","p","l","a","i","n">>)
    @@ (<<".","p","y">> :> <<"t","e","x","t","/","x","-","p","y","t","h","o","n">>)
    @@ (<<".","x","z">> :> <<"a","p","p","l","i","c","a","t","i","o","n","/","x","-","x","z">>)

\* mimetypes.encodings_map: compression suffixes, looked up case-sensitively
encodings_map ==
       (<<".","g","z">> :> <<"g","z","i","p">>)
    @@ (<<".","Z">> :> <<"c","o","m","p","r","e","s","s">>)
    @@ (<<".","b","z","2">> :> <<"b","z","i","p","2">>)
    @@ (<<".","x","z">> :> <<"x","z">>)
    @@ (<<".","b","r">> :> <<"b","r">>)

\* mimetypes.suffix_map: suffixes that stand for two, looked up in lower case
suffix_map ==
       (<<".","s","v","g","z">> :> <<".","s","v","g",".","g","z">>)
    @@ (<<".","t","g","z">> :> <<".","t","a","r",".","g","z">>)
    @@ (<<".","t","a","z">> :> <<".","t","a","r",".","g","z">>)
    @@ (<<".","t","z">> :> <<".","t","a","r",".","g","z">>)
    @@ (<<".","t","b","z","2">> :> <<".","t","a","r",".","b","z","2">>)
    @@ (<<".","t","x","z">> :> <<".","t","a","r",".","x","z">>)

\* default ignore patterns of CodebaseArchiver.__init__
DefaultIgnorePatterns ==
    << <<"*",".","p","y","c">>,
       <<"_","_","p","y","c","a","c","h","e","_","_">>,
       <<".","g","i","t">>,
       <<".","s","v","n">>,
       <<".","h","g">>,
       <<"n","o","d","e","_","m","o","d","u","l","e","s">>,
       <<".","D","S","_","S","t","o","r","e">>,
       <<"*",".","l","o","g">>,
       <<"*",".","t","m","p">>,
       <<".","v","e","n","v">>,
       <<"v","e","n","v">>,
       <<".","e","n","v">>,
       <<".","i","d","e","a">>,
       <<".","v","s","c","o","d","e">> >>

binary_types ==
    { <<"i","m","a","g","e">>,
      <<"a","u","d","i","o">>,
      <<"v","i","d","e","o">>,
      <<"b","i","n","a","r","y">>,
      <<"e","x","c","e","l">>,
      <<"s","q","l","i","t","e">>,
      <<"d","a","t","a","b","a","s","e">> }

\* ord() of the characters the model uses
Ord ==
       (" " :> 32)
    @@ ("!" :> 33)
    @@ ("#" :> 35)
    @@ ("$" :> 36)
    @@ ("%" :> 37)
    @@ ("&" :> 38)
    @@ ("'" :> 39)
    @@ ("(" :> 40)
    @@ (")" :> 41)
    @@ ("*" :> 42)
    @@ ("+" :> 43)
    @@ ("," :> 44)
    @@ ("-" :> 45)
    @@ ("." :> 46)
    @@ ("/" :> 47)
    @@ ("0" :> 48)
    @@ ("1" :> 49)
    @@ ("2" :> 50)
    @@ ("3" :> 51)
    @@ ("4" :> 52)
    @@ ("5" :> 53)
    @@ ("6" :> 54)
    @@ ("7" :> 55)
    @@ ("8" :> 56)
    @@ ("9" :> 57)
    @@ (":" :> 58)
    @@ (";" :> 59)
    @@ ("<" :> 60)
    @@ ("=" :> 61)
    @@ (">" :> 62)
    @@ ("?" :> 63)
    @@ ("@" :> 64)
    @@ ("A" :> 65)
    @@ ("B" :> 66)
    @@ ("C" :> 67)
    @@ ("D" :> 68)
    @@ ("E" :> 69)
    @@ ("F" :> 70)
    @@ ("G" :> 71)
    @@ ("H" :> 72)
    @@ ("I" :> 73)
    @@ ("J" :> 74)
    @@ ("K" :> 75)
    @@ ("L" :> 76)
    @@ ("M" :> 77)
    @@ ("N" :> 78)
    @@ ("O" :> 79)
    @@ ("P" :> 80)
    @@ ("Q" :> 81)
    @@ ("R" :> 82)
    @@ ("S" :> 83)
    @@ ("T" :> 84)
    @@ ("U" :> 85)
    @@ ("V" :> 86)
    @@ ("W" :> 87)
    @@ ("X" :> 88)
    @@ ("Y" :> 89)
    @@ ("Z" :> 90)
    @@ ("[" :> 91)
    @@ ("]" :> 93)
    @@ ("^" :> 94)
    @@ ("_" :> 95)
    @@ ("a" :> 97)
    @@ ("b" :> 98)
    @@ ("c" :> 99)
    @@ ("d" :> 100)
    @@ ("e" :> 101)
    @@ ("f" :> 102)
    @@ ("g" :> 103)
    @@ ("h" :> 104)
    @@ ("i" :> 105)
    @@ ("j" :> 106)
    @@ ("k" :> 107)
    @@ ("l" :> 108)
    @@ ("m" :> 109)
    @@ ("n" :> 110)
    @@ ("o" :> 111)
    @@ ("p" :> 112)
    @@ ("q" :> 113)
    @@ ("r" :> 114)
    @@ ("s" :> 115)
    @@ ("t" :> 116)
    @@ ("u" :> 117)
    @@ ("v" :> 118)
    @@ ("w" :> 119)
    @@ ("x" :> 120)
    @@ ("y" :> 121)
    @@ ("z" :> 122)
    @@ ("{" :> 123)
    @@ ("|" :> 124)
    @@ ("}" :> 125)
    @@ ("~" :> 126)

\* ---------------------------------------------------------- string helpers
RECURSIVE Concat(_)
\* ''.join(seqs)
Concat(ss) ==
    IF ss = <<>> THEN <<>> ELSE Head(ss) \o Concat(Tail(ss))

\* `p in s` for Python strings: p occurs as a contiguous substring of s
IsSubstring(p, s) ==
    \E i \in 0..(Len(s) - Len(p)) : SubSeq(s, i + 1, i + Len(p)) = p

\* s.startswith(p)
StartsWith(s, p) ==
    Len(p) <= Len(s) /\ SubSeq(s, 1, Len(p)) = p

\* str.lower() on one character (ASCII letters)
LowerChar(c) ==
    LET upper == <<"A","B","C","D","E","F","G","H","I","J","K","L","M",
                   "N","O","P","Q","R","S","T","U","V","W","X","Y","Z">>
        lower == <<"a","b","c","d","e","f","g","h","i","j","k","l","m",
                   "n","o","p","q","r","s","t","u","v","w","x","y","z">>
    IN  IF \E i \in 1..26 : upper[i] = c
        THEN lower[CHOOSE i \in 1..26 : upper[i] = c]
        ELSE c

\* str.lower()
Lower(s) == [i \in 1..Len(s) |-> LowerChar(s[i])]

RECURSIVE StrLess(_, _)
\* Python's s < t on strings: lexicographic by code point
StrLess(s, t) ==
    IF t = <<>> THEN FALSE
    ELSE IF s = <<>> THEN TRUE
    ELSE IF Ord[Head(s)] # Ord[Head(t)] THEN Ord[Head(s)] < Ord[Head(t)]
    ELSE StrLess(Tail(s), Tail(t))

RECURSIVE ReplaceChar(_, _, _)
\* s.replace(c, r) for a one-character c
ReplaceChar(s, c, r) ==
    IF s = <<>> THEN <<>>
    ELSE (IF Head(s) = c THEN r ELSE <<Head(s)>>) \o ReplaceChar(Tail(s), c, r)

\* ------------------------------------------------------------ path helpers
\* index of the last "." of a name, 0 when there is none (str.rfind + 1)
LastDot(name) ==
    IF \E i \in 1..Len(name) : name[i] = "."
    THEN CHOOSE i \in 1..Len(name) :
             name[i] = "." /\ \A j \in (i + 1)..Len(name) : name[j] # "."
    ELSE 0

\* pathlib's PurePath.suffix: the last dot and what follows it, unless the dot
\* is the first or the last character of the name
PathSuffix(name) ==
    LET i == LastDot(name)
    IN  IF 1 < i /\ i < Len(name) THEN SubSeq(name, i, Len(name)) ELSE <<>>

\* posixpath.splitext on a name: the extension starts at the last dot that has a
\* character other than a dot before it
SplitExt(name) ==
    LET i == LastDot(name)
    IN  IF i > 0 /\ \E j \in 1..(i - 1) : name[j] # "."
        THEN [base |-> SubSeq(name, 1, i - 1), ext |-> SubSeq(name, i, Len(name))]
        ELSE [base |-> name, ext |-> <<>>]

\* ---------------------------------------------------------- Type Classifier
\* mimetypes.guess_type(str(file_path))[0], <<>> standing for None
GuessMimeType(name) ==
    LET first == SplitExt(name)
        mapped == IF Lower(first.ext) \in DOMAIN suffix_map
                  THEN SplitExt(first.base \o suffix_map[Lower(first.ext)])
                  ELSE first
        plain == IF mapped.ext \in DOMAIN encodings_map
                 THEN SplitExt(mapped.base)
                 ELSE mapped
        ext == Lower(plain.ext)
    IN  IF ext \in DOMAIN MimeTypesMap THEN MimeTypesMap[ext] ELSE <<>>

\* detect_type with the special-file table consulted after the extension tables
detect_type_ExtensionFirst(name) ==
    LET suffix == Lower(PathSuffix(name))
        mime_type == GuessMimeType(name)
    IN  IF suffix \in DOMAIN PROGRAMMING_EXTENSIONS THEN PROGRAMMING_EXTENSIONS[suffix]
        ELSE IF suffix \in DOMAIN CONFIG_EXTENSIONS THEN CONFIG_EXTENSIONS[suffix]
        ELSE IF suffix \in DOMAIN DOCUMENTATION_EXTENSIONS THEN DOCUMENTATION_EXTENSIONS[suffix]
        ELSE IF suffix \in DOMAIN WEB_EXTENSIONS THEN WEB_EXTENSIONS[suffix]
        ELSE IF suffix \in DOMAIN DATA_EXTENSIONS THEN DATA_EXTENSIONS[suffix]
        ELSE IF suffix \in DOMAIN MEDIA_EXTENSIONS THEN MEDIA_EXTENSIONS[suffix]
        ELSE IF name \in DOMAIN SPECIAL_FILES THEN SPECIAL_FILES[name]
        ELSE IF mime_type # <<>> /\ StartsWith(mime_type, <<"t","e","x","t","/">>)
             THEN <<"t","e","x","t">>
        ELSE IF mime_type # <<>> /\ StartsWith(mime_type, <<"i","m","a","g","e","/">>)
             THEN <<"i","m","a","g","e">>
        ELSE IF mime_type # <<>> /\ StartsWith(mime_type, <<"a","u","d","i","o","/">>)
             THEN <<"a","u","d","i","o">>
        ELSE IF mime_type # <<>> /\ StartsWith(mime_type, <<"v","i","d","e","o","/">>)
             THEN <<"v","i","d","e","o">>
        ELSE IF mime_type # <<>>
                /\ StartsWith(mime_type, <<"a","p","p","l","i","c","a","t","i","o","n","/">>)
             THEN <<"b","i","n","a","r","y">>
        ELSE IF suffix # <<>> THEN <<"u","n","k","n","o","w","n">> \o suffix
        ELSE <<"u","n","k","n","o","w","n">>

\* FileTypeDetector.detect_type
detect_type(name) ==
    LET suffix == Lower(PathSuffix(name))
        mime_type == GuessMimeType(name)
    IN  IF name \in DOMAIN SPECIAL_FILES THEN SPECIAL_FILES[name]
        ELSE IF suffix \in DOMAIN PROGRAMMING_EXTENSIONS THEN PROGRAMMING_EXTENSIONS[suffix]
        ELSE IF suffix \in DOMAIN CONFIG_EXTENSIONS THEN CONFIG_EXTENSIONS[suffix]
        ELSE IF suffix \in DOMAIN DOCUMENTATION_EXTENSIONS THEN DOCUMENTATION_EXTENSIONS[suffix]
        ELSE IF suffix \in DOMAIN WEB_EXTENSIONS THEN WEB_EXTENSIONS[suffix]
        ELSE IF suffix \in DOMAIN DATA_EXTENSIONS THEN DATA_EXTENSIONS[suffix]
        ELSE IF suffix \in DOMAIN MEDIA_EXTENSIONS THEN MEDIA_EXTENSIONS[suffix]
        ELSE IF mime_type # <<>> /\ StartsWith(mime_type, <<"t","e","x","t","/">>)
             THEN <<"t","e","x","t">>
        ELSE IF mime_type # <<>> /\ StartsWith(mime_type, <<"i","m","a","g","e","/">>)
             THEN <<"i","m","a","g","e">>
        ELSE IF mime_type # <<>> /\ StartsWith(mime_type, <<"a","u","d","i","o","/">>)
             THEN <<"a","u","d","i","o">>
        ELSE IF mime_type # <<>> /\ StartsWith(mime_type, <<"v","i","d","e","o","/">>)
             THEN <<"v","i","d","e","o">>
        ELSE IF mime_type # <<>>
                /\ StartsWith(mime_type, <<"a","p","p","l","i","c","a","t","i","o","n","/">>)
             THEN <<"b","i","n","a","r","y">>
        ELSE IF suffix # <<>> THEN <<"u","n","k","n","o","w","n">> \o suffix
        ELSE <<"u","n","k","n","o","w","n">>

\* ------------------------------------------------------------ Ignore Filter
RECURSIVE RegexMatch(_, _)
\* re.match('^' + regex + '$', name) for the regular expressions _match_pattern
\* builds: "." followed by "*" is any run of characters, any other "." is any one
\* character, every other character stands for itself
RegexMatch(regex, name) ==
    IF regex = <<>> THEN name = <<>>
    ELSE IF Len(regex) >= 2 /\ regex[1] = "." /\ regex[2] = "*"
         THEN \E k \in 0..Len(name) :
                  RegexMatch(SubSeq(regex, 3, Len(regex)), SubSeq(name, k + 1, Len(name)))
    ELSE IF name = <<>> THEN FALSE
    ELSE IF regex[1] = "." THEN RegexMatch(Tail(regex), Tail(name))
    ELSE regex[1] = name[1] /\ RegexMatch(Tail(regex), Tail(name))

\* CodebaseArchiver._match_pattern
match_pattern(name, pattern) ==
    IF \E i \in 1..Len(pattern) : pattern[i] = "*"
    THEN LET regex_pattern ==
                 ReplaceChar(ReplaceChar(pattern, "*", <<".", "*">>), "?", <<".">>)
         IN  RegexMatch(regex_pattern, name)
    ELSE name = pattern

\* CodebaseArchiver._should_ignore, on str(path) and path.name
should_ignore(path_str, name, patterns) ==
    \E i \in 1..Len(patterns) :
        IsSubstring(patterns[i], path_str) \/ match_pattern(name, patterns[i])

\* CodebaseArchiver.__init__: `ignore_patterns or [defaults]`
InitIgnorePatterns(given) ==
    IF given = <<>> THEN DefaultIgnorePatterns ELSE given

\* ------------------------------------------------------- Content Sanitizer
\* XmlLegal with the first range ending one code point late
XmlLegal_OffByOne(code) ==
    \/ code = 9 \/ code = 10 \/ code = 13
    \/ (32 <= code /\ code <= 55296)
    \/ (57344 <= code /\ code <= 65533)
    \/ (65536 <= code /\ code <= 1114111)

\* the test of _clean_xml_content on one code point
XmlLegal(code) ==
    \/ code = 9 \/ code = 10 \/ code = 13
    \/ (32 <= code /\ code <= 55295)
    \/ (57344 <= code /\ code <= 65533)
    \/ (65536 <= code /\ code <= 1114111)

\* CodebaseArchiver._clean_xml_content
clean_xml_content(content) ==
    IF content = <<>> THEN content
    ELSE [i \in 1..Len(content) |->
              IF XmlLegal(content[i]) THEN content[i] ELSE 65533]

\* ------------------------------------------------------------------- state
VARIABLES
    root_kind,          \* what codebase_path names: "dir", "file" or "missing"
    fs,                 \* the entries below the root, in the host's listing order
    given_patterns,     \* the ignore_patterns argument of the constructor
    max_file_size,      \* CodebaseArchiver.max_file_size
    include_binary,     \* CodebaseArchiver.include_binary
    caller,             \* "cli": main() calls the core; "api": the core is called directly
    output_path,        \* "none" (output_path is None) or "explicit"
    out_parent_exists,  \* whether the parent directory of the explicit output path exists
    out_file,           \* the content at the output path: "absent", "old" or a document
    pc,                 \* position of the run
    metadata,           \* result of _extract_metadata
    structure,          \* result of _build_structure_tree
    files_elem,         \* children of the <files> element built so far
    todo,               \* what is left of the rglob of the files pass
    raised,             \* the exception archive_codebase ended with, "none" otherwise
    exit_code,          \* process exit code of main(), -1 while it runs
    arg,                \* input of the pure function under check
    res                 \* its result

vars ==
    <<root_kind, fs, given_patterns, max_file_size, include_binary, caller, output_path,
      out_parent_exists, out_file, pc, metadata, structure, files_elem, todo, raised,
      exit_code, arg, res>>

\* ------------------------------------------------------------- file system
\* str(codebase_path)
RootStr == <<"/", "r">>

\* self.ignore_patterns
ignore_patterns == InitIgnorePatterns(given_patterns)

Entries == 1..Len(fs)

\* Path.is_file() / Path.is_dir(); an entry of kind "other" (a dangling link, a
\* socket) is neither
is_file(e) == e # 0 /\ fs[e].kind = "file"

is_dir(e) == e = 0 \/ fs[e].kind = "dir"

\* the immediate entries of p in the order the host lists them
Children(p) ==
    SelectSeq([i \in 1..Len(fs) |-> i], LAMBDA i : fs[i].parent = p)

\* whether listing p succeeds (iterdir / scandir do not raise)
CanList(p) == is_dir(p) /\ (p = 0 \/ fs[p].list_ok)

RECURSIVE PathOf(_)
\* str(path) of an entry
PathOf(e) ==
    IF e = 0 THEN RootStr ELSE PathOf(fs[e].parent) \o <<"/">> \o fs[e].name

\* self._should_ignore(path) for an entry
Ignored(e) == should_ignore(PathOf(e), fs[e].name, ignore_patterns)

\* st_size: the decodable characters plus the bytes the lossy decode drops
SizeOf(e) == Len(fs[e].data) + fs[e].extra

RECURSIVE IterateDirectories(_)
\* pathlib's recursive walk: a directory, then the directories below each of its
\* sub-directories, in listing order; an unlistable directory ends its branch
IterateDirectories(p) ==
    <<p>> \o
    (IF CanList(p)
     THEN Concat([k \in 1..Len(Children(p)) |->
                     IF is_dir(Children(p)[k])
                     THEN IterateDirectories(Children(p)[k])
                     ELSE <<>>])
     ELSE <<>>)

\* codebase_path.rglob('*'): the entries of every directory of the walk
RGlob ==
    LET dirs == IterateDirectories(0)
    IN  Concat([k \in 1..Len(dirs) |->
                   IF CanList(dirs[k]) THEN Children(dirs[k]) ELSE <<>>])

\* ------------------------------------------------------ Metadata Extractor
RangeOf(f) == { f[x] : x \in DOMAIN f }

EmptyMetadata ==
    [total_files |-> 0, total_directories |-> 0, total_size |-> 0,
     file_types |-> <<>>, languages |-> {}]

\* metadata['file_types'][t] = metadata['file_types'].get(t, 0) + 1; the histogram
\* is a sequence of <<tag, count>> pairs in insertion order
BumpType(hist, t) ==
    IF \E k \in 1..Len(hist) : hist[k][1] = t
    THEN [k \in 1..Len(hist) |->
             IF hist[k][1] = t THEN <<t, hist[k][2] + 1>> ELSE hist[k]]
    ELSE Append(hist, <<t, 1>>)

\* MetadataStep with the file counted only after its stat succeeded
MetadataStep_CountAfterStat(m, item) ==
    IF Ignored(item) THEN m
    ELSE IF is_file(item)
         THEN LET file_type == detect_type(fs[item].name)
              IN  IF fs[item].stat_ok
                  THEN [m EXCEPT
                           !.total_files = @ + 1,
                           !.total_size = @ + SizeOf(item),
                           !.file_types = BumpType(@, file_type),
                           !.languages =
                               IF file_type \in RangeOf(PROGRAMMING_EXTENSIONS)
                               THEN @ \cup {file_type} ELSE @]
                  ELSE m
    ELSE IF is_dir(item)
         THEN [m EXCEPT !.total_directories = @ + 1]
    ELSE m

\* the body of the loop of _extract_metadata for one item
MetadataStep(m, item) ==
    IF Ignored(item) THEN m
    ELSE IF is_file(item)
         THEN LET counted == [m EXCEPT !.total_files = @ + 1]
                  file_type == detect_type(fs[item].name)
              IN  IF fs[item].stat_ok
                  THEN [counted EXCEPT
                           !.total_size = @ + SizeOf(item),
                           !.file_types = BumpType(@, file_type),
                           !.languages =
                               IF file_type \in RangeOf(PROGRAMMING_EXTENSIONS)
                               THEN @ \cup {file_type} ELSE @]
                  ELSE counted
    ELSE IF is_dir(item)
         THEN [m EXCEPT !.total_directories = @ + 1]
    ELSE m

RECURSIVE MetadataLoop(_, _)
MetadataLoop(m, items) ==
    IF items = <<>> THEN m
    ELSE MetadataLoop(MetadataStep(m, Head(items)), Tail(items))

\* CodebaseArchiver._extract_metadata
extract_metadata == MetadataLoop(EmptyMetadata, RGlob)

\* ------------------------------------------------------- Structure Builder
\* KeyLess with the names compared as they are, not lowercased
KeyLess_CaseSensitive(a, b) ==
    \/ ~is_file(a) /\ is_file(b)
    \/ /\ is_file(a) = is_file(b)
       /\ StrLess(fs[a].name, fs[b].name)

\* the sort key of _build_structure_tree: (x.is_file(), x.name.lower())
KeyLess(a, b) ==
    \/ ~is_file(a) /\ is_file(b)
    \/ /\ is_file(a) = is_file(b)
       /\ StrLess(Lower(fs[a].name), Lower(fs[b].name))

RECURSIVE InsertSorted(_, _)
\* x placed after every element whose key is not greater (sorted() is stable)
InsertSorted(sorted, x) ==
    IF sorted = <<>> THEN <<x>>
    ELSE IF KeyLess(x, Head(sorted)) THEN <<x>> \o sorted
    ELSE <<Head(sorted)>> \o InsertSorted(Tail(sorted), x)

RECURSIVE SortedByKey(_)
\* sorted(children, key=...)
SortedByKey(items) ==
    IF items = <<>> THEN <<>>
    ELSE InsertSorted(SortedByKey(SubSeq(items, 1, Len(items) - 1)), items[Len(items)])

RECURSIVE build_structure_tree(_)
\* CodebaseArchiver._build_structure_tree(root_path, current_path)
build_structure_tree(current) ==
    IF is_file(current)
    THEN [tag |-> "file", entry |-> current, name |-> fs[current].name,
          type |-> detect_type(fs[current].name), children |-> <<>>]
    ELSE LET kept == IF CanList(current)
                     THEN SelectSeq(SortedByKey(Children(current)),
                                    LAMBDA c : ~Ignored(c))
                     ELSE <<>>
         IN  [tag |-> "directory", entry |-> current,
              name |-> IF current # 0 THEN fs[current].name ELSE <<"/">>,
              type |-> <<>>,
              children |-> [k \in 1..Len(kept) |-> build_structure_tree(kept[k])]]

\* -------------------------------------------------------- Archive Assembler
\* CodebaseArchiver._is_text_file
is_text_file(e) ==
    IF /\ ~include_binary
       /\ \E bt \in binary_types : IsSubstring(bt, detect_type(fs[e].name))
    THEN FALSE
    ELSE fs[e].open_ok

RECURSIVE ReadText(_)
\* f.read() of a file opened in text mode: "\r\n" and "\r" come back as "\n"
ReadText(data) ==
    IF data = <<>> THEN <<>>
    ELSE IF Head(data) = 13
         THEN <<10>> \o ReadText(IF Len(data) >= 2 /\ data[2] = 10
                                 THEN SubSeq(data, 3, Len(data))
                                 ELSE Tail(data))
    ELSE <<Head(data)>> \o ReadText(Tail(data))

\* str.isspace() on one code point
IsSpace(code) ==
    code \in ((9..13) \cup (28..32) \cup {133, 160, 5760} \cup (8192..8202)
              \cup {8232, 8233, 8239, 8287, 12288})

\* `not content.strip()`
StripIsEmpty(content) == \A i \in 1..Len(content) : IsSpace(content[i])

\* the line boundaries of str.splitlines()
IsLineBreak(code) ==
    code \in ((10..13) \cup (28..30) \cup {133, 8232, 8233})

\* CodebaseArchiver._count_lines: len(content.splitlines()) if content else 0
count_lines(content) ==
    IF content = <<>> THEN 0
    ELSE Cardinality({ i \in 1..Len(content) :
                         /\ IsLineBreak(content[i])
                         /\ ~(content[i] = 13 /\ i < Len(content) /\ content[i + 1] = 10) })
         + (IF IsLineBreak(content[Len(content)]) THEN 0 ELSE 1)

\* the <file> element as created at the top of the try block
NewFileElem(e) ==
    [entry |-> e, name |-> fs[e].name, path |-> PathOf(e),
     type |-> detect_type(fs[e].name),
     has_stats |-> FALSE, size |-> 0, has_lines |-> FALSE, lines |-> 0,
     has_content |-> FALSE, content |-> <<>>, notes |-> <<>>]

\* CodebaseArchiver._get_file_stats followed by the loop that sets the attributes
WithStats(elem, e) ==
    IF fs[e].stat_ok
    THEN [elem EXCEPT !.has_stats = TRUE, !.size = SizeOf(e)]
    ELSE elem

\* WithContentOrNote with the size test written `<` instead of `<=`
WithContentOrNote_StrictSize(elem, e) ==
    IF SizeOf(e) < max_file_size /\ is_text_file(e)
    THEN IF fs[e].read_ok
         THEN LET content == ReadText(fs[e].data)
              IN  IF ~StripIsEmpty(content)
                  THEN [elem EXCEPT !.has_lines = TRUE,
                                    !.lines = count_lines(content),
                                    !.has_content = TRUE,
                                    !.content = clean_xml_content(content)]
                  ELSE elem
         ELSE [elem EXCEPT !.notes = Append(@, [kind |-> "unreadable", bytes |-> 0])]
    ELSE IF SizeOf(e) >= max_file_size
         THEN [elem EXCEPT !.notes = Append(@, [kind |-> "too_large", bytes |-> SizeOf(e)])]
         ELSE [elem EXCEPT !.notes = Append(@, [kind |-> "binary", bytes |-> 0])]

\* the content / note decision of archive_codebase for a file whose stat succeeds
WithContentOrNote(elem, e) ==
    IF SizeOf(e) <= max_file_size /\ is_text_file(e)
    THEN IF fs[e].read_ok
         THEN LET content == ReadText(fs[e].data)
              IN  IF ~StripIsEmpty(content)
                  THEN [elem EXCEPT !.has_lines = TRUE,
                                    !.lines = count_lines(content),
                                    !.has_content = TRUE,
                                    !.content = clean_xml_content(content)]
                  ELSE elem
         ELSE [elem EXCEPT !.notes = Append(@, [kind |-> "unreadable", bytes |-> 0])]
    ELSE IF SizeOf(e) > max_file_size
         THEN [elem EXCEPT !.notes = Append(@, [kind |-> "too_large", bytes |-> SizeOf(e)])]
         ELSE [elem EXCEPT !.notes = Append(@, [kind |-> "binary", bytes |-> 0])]

\* the except branch of the files pass: a second element for the same file
InaccessibleElem(e) ==
    [NewFileElem(e) EXCEPT
        !.type = <<"i","n","a","c","c","e","s","s","i","b","l","e">>,
        !.notes = <<[kind |-> "access_denied", bytes |-> 0]>>]

\* what one iteration of the files pass appends to <files> for a file: the element
\* is appended when it is created, so a stat that raises after that leaves it
\* behind and the handler appends the degraded one
FileElems(e) ==
    IF fs[e].stat_ok
    THEN <<WithContentOrNote(WithStats(NewFileElem(e), e), e)>>
    ELSE <<WithStats(NewFileElem(e), e), InaccessibleElem(e)>>

\* --------------------------------------------------------- serialization
RECURSIVE EscapeCdata(_)
\* escaping of character data on output: & < > and the double quote
EscapeCdata(text) ==
    IF text = <<>> THEN <<>>
    ELSE (CASE Head(text) = 38 -> <<38, 97, 109, 112, 59>>
            [] Head(text) = 60 -> <<38, 108, 116, 59>>
            [] Head(text) = 62 -> <<38, 103, 116, 59>>
            [] Head(text) = 34 -> <<38, 113, 117, 111, 116, 59>>
            [] OTHER -> <<Head(text)>>) \o EscapeCdata(Tail(text))

RECURSIVE ParseCdata(_)
\* what an XML parser gives back for character data: entity references resolved,
\* line ends normalised to "\n"
ParseCdata(text) ==
    IF text = <<>> THEN <<>>
    ELSE IF StartsWith(text, <<38, 97, 109, 112, 59>>)
         THEN <<38>> \o ParseCdata(SubSeq(text, 6, Len(text)))
    ELSE IF StartsWith(text, <<38, 108, 116, 59>>)
         THEN <<60>> \o ParseCdata(SubSeq(text, 5, Len(text)))
    ELSE IF StartsWith(text, <<38, 103, 116, 59>>)
         THEN <<62>> \o ParseCdata(SubSeq(text, 5, Len(text)))
    ELSE IF StartsWith(text, <<38, 113, 117, 111, 116, 59>>)
         THEN <<34>> \o ParseCdata(SubSeq(text, 7, Len(text)))
    ELSE IF StartsWith(text, <<13, 10>>)
         THEN <<10>> \o ParseCdata(SubSeq(text, 3, Len(text)))
    ELSE IF Head(text) = 13
         THEN <<10>> \o ParseCdata(Tail(text))
    ELSE <<Head(text)>> \o ParseCdata(Tail(text))

RECURSIVE SplitLines(_)
\* text.split('\n')
SplitLines(text) ==
    IF \E i \in 1..Len(text) : text[i] = 10
    THEN LET i == CHOOSE j \in 1..Len(text) :
                      text[j] = 10 /\ \A k \in 1..(j - 1) : text[k] # 10
         IN  <<SubSeq(text, 1, i - 1)>> \o SplitLines(SubSeq(text, i + 1, Len(text)))
    ELSE <<text>>

\* the lines toprettyxml gives a <content> element: its text is written inline
\* between the tags, so the opening tag shares the first line of the text and the
\* closing tag the last
PrettyContentLines(text) ==
    LET segs == SplitLines(EscapeCdata(text))
    IN  [k \in 1..Len(segs) |->
            [text |-> segs[k], open |-> (k = 1), close |-> (k = Len(segs))]]

\* `if line.strip()` of the final filter
LineKept(line) == line.open \/ line.close \/ ~StripIsEmpty(line.text)

\* [line for line in pretty_xml.split('\n') if line.strip()]
StripBlankLines(lines) == SelectSeq(lines, LineKept)

RECURSIVE JoinLines(_)
\* '\n'.join of the text of the lines
JoinLines(lines) ==
    IF lines = <<>> THEN <<>>
    ELSE IF Len(lines) = 1 THEN lines[1].text
    ELSE lines[1].text \o <<10>> \o JoinLines(Tail(lines))

\* a <file> element as it stands in the written document
WrittenFile(elem) ==
    [entry |-> elem.entry, name |-> elem.name, path |-> elem.path, type |-> elem.type,
     has_stats |-> elem.has_stats, size |-> elem.size,
     has_lines |-> elem.has_lines, lines |-> elem.lines,
     has_content |-> elem.has_content,
     content_lines |->
         IF elem.has_content
         THEN StripBlankLines(PrettyContentLines(ParseCdata(EscapeCdata(elem.content))))
         ELSE <<>>,
     notes |-> elem.notes]

\* the text of the content child a reader of the written document gets
WrittenContent(wf) == ParseCdata(JoinLines(wf.content_lines))

RECURSIVE InsertType(_, _)
InsertType(sorted, pair) ==
    IF sorted = <<>> THEN <<pair>>
    ELSE IF StrLess(pair[1], Head(sorted)[1]) THEN <<pair>> \o sorted
    ELSE <<Head(sorted)>> \o InsertType(Tail(sorted), pair)

RECURSIVE SortedTypes(_)
\* sorted(metadata['file_types'].items())
SortedTypes(hist) ==
    IF hist = <<>> THEN <<>>
    ELSE InsertType(SortedTypes(SubSeq(hist, 1, Len(hist) - 1)), hist[Len(hist)])

\* the document archive_codebase builds, after ET.tostring, minidom.parseString,
\* toprettyxml and the blank-line filter
FinalXml ==
    [statistics |-> [total_files |-> metadata.total_files,
                     total_directories |-> metadata.total_directories,
                     total_size |-> metadata.total_size],
     file_types |-> SortedTypes(metadata.file_types),
     languages |-> metadata.languages,
     structure |-> structure,
     files |-> [k \in 1..Len(files_elem) |-> WrittenFile(files_elem[k])]]

\* whether open(output_path, 'w') succeeds: a generated path lies in the root
\* directory; an explicit one needs its parent directory
CanOpenOutput == output_path = "none" \/ out_parent_exists

\* ------------------------------------------------------------------ actions
\* CliMain without the mkdir of the output path's parent
CliMain_NoMkdir ==
    /\ pc = "main"
    /\ IF root_kind # "dir"
       THEN /\ exit_code' = 1
            /\ pc' = "exited"
       ELSE /\ pc' = "archive"
            /\ UNCHANGED exit_code
    /\ UNCHANGED <<root_kind, fs, given_patterns, max_file_size, include_binary, caller,
                   output_path, out_parent_exists, out_file, metadata, structure,
                   files_elem, todo, raised, arg, res>>

\* cli.main up to the call of archive_codebase: validation, then mkdir of the
\* parent of an explicit output path
CliMain ==
    /\ pc = "main"
    /\ IF root_kind # "dir"
       THEN /\ exit_code' = 1
            /\ pc' = "exited"
            /\ UNCHANGED out_parent_exists
       ELSE /\ out_parent_exists' = (output_path = "explicit" \/ out_parent_exists)
            /\ pc' = "archive"
            /\ UNCHANGED exit_code
    /\ UNCHANGED <<root_kind, fs, given_patterns, max_file_size, include_binary, caller,
                   output_path, out_file, metadata, structure, files_elem, todo,
                   raised, arg, res>>

\* archive_codebase: `if not codebase_path.exists(): raise FileNotFoundError`
RaiseNotFound ==
    /\ pc = "archive"
    /\ root_kind = "missing"
    /\ raised' = "FileNotFoundError"
    /\ pc' = "raised"
    /\ UNCHANGED <<root_kind, fs, given_patterns, max_file_size, include_binary, caller,
                   output_path, out_parent_exists, out_file, metadata, structure,
                   files_elem, todo, exit_code, arg, res>>

\* RaiseNotADirectory with the output opened for writing before the check
RaiseNotADirectory_AfterOpen ==
    /\ pc = "archive"
    /\ root_kind = "file"
    /\ raised' = "NotADirectoryError"
    /\ out_file' = IF CanOpenOutput THEN "absent" ELSE out_file
    /\ pc' = "raised"
    /\ UNCHANGED <<root_kind, fs, given_patterns, max_file_size, include_binary, caller,
                   output_path, out_parent_exists, metadata, structure,
                   files_elem, todo, exit_code, arg, res>>

\* archive_codebase: `if not codebase_path.is_dir(): raise NotADirectoryError`
RaiseNotADirectory ==
    /\ pc = "archive"
    /\ root_kind = "file"
    /\ raised' = "NotADirectoryError"
    /\ pc' = "raised"
    /\ UNCHANGED <<root_kind, fs, given_patterns, max_file_size, include_binary, caller,
                   output_path, out_parent_exists, out_file, metadata, structure,
                   files_elem, todo, exit_code, arg, res>>

\* archive_codebase: the metadata pass and the metadata section
ExtractMetadata ==
    /\ pc = "archive"
    /\ root_kind = "dir"
    /\ metadata' = extract_metadata
    /\ pc' = "structure"
    /\ UNCHANGED <<root_kind, fs, given_patterns, max_file_size, include_binary, caller,
                   output_path, out_parent_exists, out_file, structure, files_elem,
                   todo, raised, exit_code, arg, res>>

\* archive_codebase: the structure section, then the start of the files pass
BuildStructure ==
    /\ pc = "structure"
    /\ structure' = build_structure_tree(0)
    /\ todo' = RGlob
    /\ files_elem' = <<>>
    /\ pc' = "files"
    /\ UNCHANGED <<root_kind, fs, given_patterns, max_file_size, include_binary, caller,
                   output_path, out_parent_exists, out_file, metadata, raised,
                   exit_code, arg, res>>

\* one iteration of the files pass
FilesStep ==
    /\ pc = "files"
    /\ todo # <<>>
    /\ LET file_path == Head(todo)
       IN  files_elem' = IF is_file(file_path) /\ ~Ignored(file_path)
                         THEN files_elem \o FileElems(file_path)
                         ELSE files_elem
    /\ todo' = Tail(todo)
    /\ UNCHANGED <<root_kind, fs, given_patterns, max_file_size, include_binary, caller,
                   output_path, out_parent_exists, out_file, pc, metadata, structure,
                   raised, exit_code, arg, res>>

\* the end of archive_codebase: render and write the document
WriteDocument ==
    /\ pc = "files"
    /\ todo = <<>>
    /\ CanOpenOutput
    /\ out_file' = FinalXml
    /\ pc' = "done"
    /\ exit_code' = IF caller = "cli" THEN 0 ELSE exit_code
    /\ UNCHANGED <<root_kind, fs, given_patterns, max_file_size, include_binary, caller,
                   output_path, out_parent_exists, metadata, structure, files_elem,
                   todo, raised, arg, res>>

\* the end of archive_codebase when open(output_path, 'w') raises
WriteFails ==
    /\ pc = "files"
    /\ todo = <<>>
    /\ ~CanOpenOutput
    /\ raised' = "FileNotFoundError"
    /\ pc' = "raised"
    /\ UNCHANGED <<root_kind, fs, given_patterns, max_file_size, include_binary, caller,
                   output_path, out_parent_exists, out_file, metadata, structure,
                   files_elem, todo, exit_code, arg, res>>

Next ==
    \/ CliMain
    \/ RaiseNotFound
    \/ RaiseNotADirectory
    \/ ExtractMetadata
    \/ BuildStructure
    \/ FilesStep
    \/ WriteDocument
    \/ WriteFails

\* ------------------------------------------------------------------ inputs
\* all sequences over S of length at most n
SeqsUpTo(S, n) == UNION { [1..k -> S] : k \in 0..n }

Dir(name, listable) ==
    [name |-> name, kind |-> "dir", data |-> <<>>, extra |-> 0,
     stat_ok |-> TRUE, open_ok |-> FALSE, read_ok |-> FALSE, list_ok |-> listable]

File(name, data, extra, stat, open, read) ==
    [name |-> name, kind |-> "file", data |-> data, extra |-> extra,
     stat_ok |-> stat, open_ok |-> open, read_ok |-> read, list_ok |-> FALSE]

Other(name) ==
    [name |-> name, kind |-> "other", data |-> <<>>, extra |-> 0,
     stat_ok |-> FALSE, open_ok |-> FALSE, read_ok |-> FALSE, list_ok |-> FALSE]

\* the entries the modelled trees are made of
WalkEntries ==
    { Dir(<<"A">>, TRUE), Dir(<<"b">>, TRUE), Dir(<<"b">>, FALSE),
      File(<<"a", ".", "p", "y">>, <<97>>, 0, TRUE, TRUE, TRUE),
      File(<<"B">>, <<97, 10>>, 0, FALSE, TRUE, TRUE),
      File(<<"b", ".", "t", "x", "t">>, <<97>>, 0, TRUE, TRUE, TRUE),
      Other(<<"s">>) }

\* a tree the host can show: a parent is an earlier directory, a directory that
\* cannot be listed shows no entries, and sibling names differ
WellFormedTree(t) ==
    /\ \A i \in 1..Len(t) :
           /\ t[i].parent < i
           /\ t[i].parent # 0 => (t[t[i].parent].kind = "dir" /\ t[t[i].parent].list_ok)
    /\ \A i, j \in 1..Len(t) :
           (i # j /\ t[i].parent = t[j].parent) => t[i].name # t[j].name

WithParent(e, p) ==
    [name |-> e.name, kind |-> e.kind, data |-> e.data, extra |-> e.extra,
     stat_ok |-> e.stat_ok, open_ok |-> e.open_ok, read_ok |-> e.read_ok,
     list_ok |-> e.list_ok, parent |-> p]

Trees ==
    { t \in SeqsUpTo({ WithParent(e, p) : e \in WalkEntries, p \in 0..(MaxEntries - 1) },
                     MaxEntries) : WellFormedTree(t) }

\* the ignore-pattern lists of the modelled runs; the empty list selects the defaults
WalkPatterns ==
    { <<>>, << <<"b", "*">> >>, << <<"b">> >>, << <<"*", ".", "p", "y">>, <<"A">> >> }

\* the code points of modelled file contents: a, space and "\n"
TextAlphabet == {97, 32, 10}

\* contents with "\r\n" and "\r" line ends, with characters that are escaped on
\* output, and with a code point that is illegal in the output
SampleTexts ==
    { <<97, 13, 10, 97>>, <<13, 97>>, <<97, 38, 60>>, <<62, 34, 10>>, <<0, 97>>, <<0>> }

Texts == SeqsUpTo(TextAlphabet, MaxTextLen) \cup SampleTexts

FileNames == { <<"a", ".", "p", "y">>, <<"a", ".", "p", "n", "g">> }

Idle ==
    /\ metadata = EmptyMetadata
    /\ structure = <<>>
    /\ files_elem = <<>>
    /\ todo = <<>>
    /\ raised = "none"
    /\ exit_code = -1
    /\ arg = <<>>
    /\ res = <<>>

\* runs over directory trees
InitWalk ==
    /\ root_kind = "dir"
    /\ fs \in Trees
    /\ given_patterns \in WalkPatterns
    /\ max_file_size = 1
    /\ include_binary = FALSE
    /\ caller = "api"
    /\ output_path = "none"
    /\ out_parent_exists = TRUE
    /\ out_file = "absent"
    /\ pc = "archive"

\* runs over one file of every content, size and fault
InitFile ==
    /\ root_kind = "dir"
    /\ \E name \in FileNames, data \in Texts, extra \in {0, 1},
          fault \in {"none", "stat", "open", "read"} :
          fs = <<WithParent(File(name, data, extra, fault # "stat",
                                 fault # "open", fault \notin {"open", "read"}), 0)>>
    /\ given_patterns = <<>>
    /\ max_file_size \in {1, MaxTextLen}
    /\ include_binary \in BOOLEAN
    /\ caller = "api"
    /\ output_path = "none"
    /\ out_parent_exists = TRUE
    /\ out_file = "absent"
    /\ pc = "archive"

\* runs over every root, caller and output path
InitOutput ==
    /\ root_kind \in {"dir", "file", "missing"}
    /\ fs \in IF root_kind = "dir"
              THEN { t \in Trees : Len(t) <= 1 }
              ELSE { <<>> }
    /\ given_patterns = <<>>
    /\ max_file_size = 1
    /\ include_binary = FALSE
    /\ caller \in {"cli", "api"}
    /\ output_path \in {"none", "explicit"}
    /\ out_parent_exists \in BOOLEAN
    /\ out_file \in {"absent", "old"}
    /\ output_path = "none" => (out_parent_exists /\ out_file = "absent")
    /\ ~out_parent_exists => out_file = "absent"
    /\ pc = IF caller = "cli" THEN "main" ELSE "archive"

Init == Idle /\ (InitWalk \/ InitFile \/ InitOutput)

Spec == Init /\ [][Next]_vars

\* ------------------------------------------------- the ignore filter alone
\* the archiver's variables in a run that only calls one of its pure functions
NoArchive ==
    /\ root_kind = "dir"
    /\ fs = <<>>
    /\ given_patterns = <<>>
    /\ max_file_size = 1
    /\ include_binary = FALSE
    /\ caller = "api"
    /\ output_path = "none"
    /\ out_parent_exists = TRUE
    /\ out_file = "absent"
    /\ metadata = EmptyMetadata
    /\ structure = <<>>
    /\ files_elem = <<>>
    /\ todo = <<>>
    /\ raised = "none"
    /\ exit_code = -1

archiveVars ==
    <<root_kind, fs, given_patterns, max_file_size, include_binary, caller, output_path,
      out_parent_exists, out_file, metadata, structure, files_elem, todo, raised,
      exit_code>>

\* the characters of modelled patterns and of modelled path segments
PatternAlphabet == {"a", ".", "*", "?"}

SegmentAlphabet == {"a", "b", ".", "*"}

\* the directory part of the modelled paths
ParentDirs == { <<"/", "r">>, <<"/", "r", "/", "a", "*">> }

InitIgnore ==
    /\ NoArchive
    /\ pc = "call"
    /\ \E pattern \in SeqsUpTo(PatternAlphabet, MaxPatLen) \ {<<>>},
          name \in SeqsUpTo(SegmentAlphabet, MaxPatLen) \ {<<>>},
          dir \in ParentDirs :
          arg = [patterns |-> <<pattern>>, name |-> name,
                 path_str |-> dir \o <<"/">> \o name]
    /\ res = <<>>

\* a call of _should_ignore
CallShouldIgnore ==
    /\ pc = "call"
    /\ res' = should_ignore(arg.path_str, arg.name, InitIgnorePatterns(arg.patterns))
    /\ pc' = "returned"
    /\ UNCHANGED <<archiveVars, arg>>

NextIgnore == CallShouldIgnore

SpecIgnore == InitIgnore /\ [][NextIgnore]_vars

\* ---------------------------------------------------- the sanitizer alone
\* code points on both sides of every boundary of the legal ranges
CodePoints ==
    {0, 8, 9, 10, 11, 13, 31, 32, 55295, 55296, 57343, 57344, 65533, 65534, 65535,
     65536, 1114111}

InitClean ==
    /\ NoArchive
    /\ pc = "call"
    /\ arg \in SeqsUpTo(CodePoints, MaxCleanLen)
    /\ res = <<>>

\* a call of _clean_xml_content
CallClean ==
    /\ pc = "call"
    /\ res' = clean_xml_content(arg)
    /\ pc' = "returned"
    /\ UNCHANGED <<archiveVars, arg>>

NextClean == CallClean

SpecClean == InitClean /\ [][NextClean]_vars

\* --------------------------------------------------- the classifier alone
\* str.upper() on one character (ASCII letters)
UpperChar(c) ==
    LET upper == <<"A","B","C","D","E","F","G","H","I","J","K","L","M",
                   "N","O","P","Q","R","S","T","U","V","W","X","Y","Z">>
        lower == <<"a","b","c","d","e","f","g","h","i","j","k","l","m",
                   "n","o","p","q","r","s","t","u","v","w","x","y","z">>
    IN  IF \E i \in 1..26 : lower[i] = c
        THEN upper[CHOOSE i \in 1..26 : lower[i] = c]
        ELSE c

Upper(s) == [i \in 1..Len(s) |-> UpperChar(s[i])]

\* the keys of the six extension tables, in the order detect_type consults them
TableExtensions ==
    DOMAIN PROGRAMMING_EXTENSIONS \cup DOMAIN CONFIG_EXTENSIONS
        \cup DOMAIN DOCUMENTATION_EXTENSIONS \cup DOMAIN WEB_EXTENSIONS
        \cup DOMAIN DATA_EXTENSIONS \cup DOMAIN MEDIA_EXTENSIONS

\* extensions of modelled names: every table key, every key of the MIME excerpt,
\* the compression and double suffixes, extensions that nothing recognises, a
\* lone dot and no extension at all
ClassifyExtensions ==
    TableExtensions \cup DOMAIN MimeTypesMap \cup DOMAIN encodings_map
        \cup DOMAIN suffix_map
        \cup { <<".","x","y","z">>, <<".","i","m","a","g","e","x">>,
               <<".","d","a","t","a","b","a","s","e","s">>, <<".">>, <<>> }

\* modelled file names: the special names and their case variants, the stems
\* x, .x, x.py and x.txt with every extension, x and X with every extension in
\* upper case
ClassifyNames ==
    DOMAIN SPECIAL_FILES
        \cup { Lower(n) : n \in DOMAIN SPECIAL_FILES }
        \cup { Upper(n) : n \in DOMAIN SPECIAL_FILES }
        \cup { stem \o ext : stem \in { <<"x">>, <<".","x">>, <<"x",".","p","y">>,
                                        <<"x",".","t","x","t">> },
                              ext \in ClassifyExtensions }
        \cup { stem \o Upper(ext) : stem \in { <<"x">>, <<"X">> },
                                     ext \in ClassifyExtensions }

InitClassify ==
    /\ NoArchive
    /\ pc = "call"
    /\ arg \in ClassifyNames
    /\ res = <<>>

\* a call of detect_type; res collects the tags of the calls made so far
CallDetectType ==
    /\ pc = "call"
    /\ Len(res) < MaxCalls
    /\ res' = Append(res, detect_type(arg))
    /\ UNCHANGED <<archiveVars, arg, pc>>

NextClassify == CallDetectType

SpecClassify == InitClassify /\ [][NextClassify]_vars

\* --------------------------------------------- the eligibility test alone
\* one file of every modelled name, readable or not, under both settings
InitTextFile ==
    /\ root_kind = "dir"
    /\ \E name \in ClassifyNames, open \in BOOLEAN :
          fs = <<WithParent(File(name, <<97>>, 0, TRUE, open, open), 0)>>
    /\ given_patterns = <<>>
    /\ max_file_size = 1
    /\ include_binary \in BOOLEAN
    /\ caller = "api"
    /\ output_path = "none"
    /\ out_parent_exists = TRUE
    /\ out_file = "absent"
    /\ metadata = EmptyMetadata
    /\ structure = <<>>
    /\ files_elem = <<>>
    /\ todo = <<>>
    /\ raised = "none"
    /\ exit_code = -1
    /\ pc = "call"
    /\ arg = 1
    /\ res = <<>>

\* a call of _is_text_file on the file
CallIsTextFile ==
    /\ pc = "call"
    /\ res' = is_text_file(arg)
    /\ pc' = "returned"
    /\ UNCHANGED <<archiveVars, arg>>

NextTextFile == CallIsTextFile

SpecTextFile == InitTextFile /\ [][NextTextFile]_vars

\* ================================================================== claims
RECURSIVE NodesOf(_)
\* every node of a structure tree
NodesOf(node) ==
    {node} \cup UNION { NodesOf(node.children[k]) : k \in 1..Len(node.children) }

RECURSIVE SumSizes(_)
\* the sum of the byte sizes of a set of entries
SumSizes(S) ==
    IF S = {} THEN 0
    ELSE LET e == CHOOSE x \in S : TRUE
         IN  SizeOf(e) + SumSizes(S \ {e})

\* the files and directories below the root that the ignore filter lets through
KeptFiles == { e \in Entries : fs[e].kind = "file" /\ ~Ignored(e) }

KeptDirs == { e \in Entries : fs[e].kind = "dir" /\ ~Ignored(e) }

\* the elements of the written <files> section that stand for entry e
WrittenFor(e) == { k \in 1..Len(out_file.files) : out_file.files[k].entry = e }

\* C1: in a finished run over a tree of files and directories, the files counted
\* in total_files, the files with a File node in the structure tree and the files
\* with an element in the files section are the same set, and the directories
\* counted in total_directories are the non-root Directory nodes.
C1_PassesAgree ==
    (pc = "done" /\ \A e \in Entries : fs[e].kind \in {"file", "dir"}) =>
        LET nodes == NodesOf(out_file.structure)
            structFiles == { n.entry : n \in { m \in nodes : m.tag = "file" } }
            structDirs == { n.entry : n \in { m \in nodes : m.tag = "directory" } } \ {0}
            elemFiles == { out_file.files[k].entry : k \in 1..Len(out_file.files) }
        IN  /\ structFiles = elemFiles
            /\ out_file.statistics.total_files = Cardinality(structFiles)
            /\ out_file.statistics.total_directories = Cardinality(structDirs)

\* C2: in the written document, the content child of every non-ignored,
\* text-eligible file within the size limit, whose text is not whitespace-only and
\* is XML-legal throughout, equals the text of the file, with no line removed.
C2_RoundTrip ==
    pc = "done" =>
        \A e \in Entries :
            LET text == ReadText(fs[e].data)
            IN  ( /\ is_file(e) /\ ~Ignored(e)
                  /\ fs[e].stat_ok /\ fs[e].read_ok
                  /\ SizeOf(e) <= max_file_size
                  /\ is_text_file(e)
                  /\ ~StripIsEmpty(text)
                  /\ \A i \in 1..Len(text) : XmlLegal(text[i]) )
                => \A k \in WrittenFor(e) :
                       /\ out_file.files[k].has_content
                       /\ WrittenContent(out_file.files[k]) = text

\* C3: the children of the element of a file that can be stat-ed and read follow
\* the table: within size, eligible, not whitespace-only: content and lines, no
\* note; within size, eligible, whitespace-only: nothing; over size: a too-large
\* note with the byte count, nothing else, binary or not; within size, not
\* eligible: a binary note and no content. A size equal to the limit is within.
C3_ContentTable ==
    \A k \in 1..Len(files_elem) :
        LET elem == files_elem[k]
            e == elem.entry
            within == SizeOf(e) <= max_file_size
            eligible == is_text_file(e)
            blank == \A i \in 1..Len(ReadText(fs[e].data)) :
                         IsSpace(ReadText(fs[e].data)[i])
        IN  (fs[e].stat_ok /\ fs[e].read_ok) =>
                /\ (within /\ eligible /\ ~blank) =>
                       (elem.has_content /\ elem.has_lines /\ elem.notes = <<>>)
                /\ (within /\ eligible /\ blank) =>
                       (~elem.has_content /\ ~elem.has_lines /\ elem.notes = <<>>)
                /\ ~within =>
                       /\ ~elem.has_content /\ ~elem.has_lines
                       /\ elem.notes = <<[kind |-> "too_large", bytes |-> SizeOf(e)]>>
                /\ (within /\ ~eligible) =>
                       /\ ~elem.has_content
                       /\ elem.notes = <<[kind |-> "binary", bytes |-> 0]>>

\* a file of exactly max_file_size bytes has got its content and its line count
C3_Witness ==
    /\ pc = "done"
    /\ \E k \in 1..Len(files_elem) :
           /\ SizeOf(files_elem[k].entry) = max_file_size
           /\ files_elem[k].has_content
           /\ files_elem[k].has_lines

\* "*" is any run of characters, "?" exactly one, every other character itself
RECURSIVE GlobMatch(_, _)
GlobMatch(pattern, name) ==
    IF pattern = <<>> THEN name = <<>>
    ELSE IF Head(pattern) = "*"
         THEN \E k \in 0..Len(name) :
                  GlobMatch(Tail(pattern), SubSeq(name, k + 1, Len(name)))
    ELSE IF name = <<>> THEN FALSE
    ELSE IF Head(pattern) = "?" THEN GlobMatch(Tail(pattern), Tail(name))
    ELSE Head(pattern) = Head(name) /\ GlobMatch(Tail(pattern), Tail(name))

\* the rule of the ignore filter as the specification words it
IgnoredByRule(path_str, name, patterns) ==
    \E i \in 1..Len(patterns) :
        IF \E j \in 1..Len(patterns[i]) : patterns[i][j] \in {"*", "?"}
        THEN GlobMatch(patterns[i], name)
        ELSE IsSubstring(patterns[i], path_str) \/ name = patterns[i]

\* C4: _should_ignore is true exactly when some pattern matches by the rule: a
\* pattern with "*" or "?" as an anchored glob on the final segment only, any
\* other pattern by containment in the path or equality with the final segment.
C4_IgnoreRule ==
    pc = "returned" =>
        res = IgnoredByRule(arg.path_str, arg.name, arg.patterns)

\* C5: in a finished run every non-ignored file has exactly one element in the
\* files section, and a file whose stat fails has a single element of type
\* inaccessible with a note.
C5_OneElementPerFile ==
    pc = "done" =>
        \A e \in KeptFiles :
            /\ Cardinality(WrittenFor(e)) = 1
            /\ ~fs[e].stat_ok =>
                   \A k \in WrittenFor(e) :
                       /\ out_file.files[k].type =
                              <<"i","n","a","c","c","e","s","s","i","b","l","e">>
                       /\ Len(out_file.files[k].notes) = 1

\* a call of archive_codebase on a root that is missing or no directory ends in
\* the matching error at once, with no pass run and the output left as it was
C6_Step ==
    (pc = "archive" /\ root_kind # "dir") =>
        /\ pc' = "raised"
        /\ raised' = IF root_kind = "missing" THEN "FileNotFoundError"
                                              ELSE "NotADirectoryError"
        /\ out_file' = out_file
        /\ metadata' = EmptyMetadata /\ structure' = <<>> /\ files_elem' = <<>>

\* C6: with a missing root archive_codebase raises the not-found error, with a
\* root that is no directory the not-a-directory error; no pass has run and
\* nothing has been written when it does.
C6_FatalPreconditions ==
    /\ [][C6_Step]_vars
    /\ [](root_kind # "dir" =>
             /\ pc \in {"main", "exited", "archive", "raised"}
             /\ out_file \in {"absent", "old"})

\* the core has raised on a root that is a file, with an output file in place
C6_Witness ==
    /\ pc = "raised"
    /\ raised = "NotADirectoryError"
    /\ out_file = "old"

\* C7 as stated: the core raises only for the two fatal preconditions, so never
\* when the root is a directory.
C7_RaisesOnlyForPreconditions ==
    raised # "none" => root_kind # "dir"

\* C7 as amended: the core does not create the parent of an explicit output path;
\* with the parent missing it runs its passes and the final open raises, writing
\* nothing. main() creates the parent before it calls the core, so a run through
\* main() never ends in an error of the core.
C7_ParentCreatedByMain ==
    /\ (raised # "none" /\ root_kind = "dir") =>
           /\ caller = "api" /\ output_path = "explicit" /\ ~out_parent_exists
           /\ raised = "FileNotFoundError"
           /\ pc = "raised" /\ todo = <<>> /\ structure # <<>>
           /\ out_file = "absent"
    /\ caller = "cli" => raised = "none"
    /\ (caller = "cli" /\ pc \notin {"main", "exited"}) => CanOpenOutput
    /\ pc = "done" => (CanOpenOutput /\ out_file = FinalXml)

\* the core, called directly with a missing output parent, has failed at the write
C7_Witness ==
    /\ pc = "raised"
    /\ root_kind = "dir"
    /\ caller = "api"
    /\ output_path = "explicit"
    /\ ~out_parent_exists

\* C8: every Directory node holds exactly the non-ignored entries of its
\* directory, none when the directory cannot be listed, with every non-file
\* before every file and each group in ascending order of the lowercased name;
\* the root node is named "/".
C8_StructureOrder ==
    structure # <<>> =>
        /\ structure.tag = "directory" /\ structure.entry = 0
        /\ structure.name = <<"/">>
        /\ \A n \in NodesOf(structure) :
               LET kids == [k \in 1..Len(n.children) |-> n.children[k].entry]
               IN  /\ n.tag = "file" => (kids = <<>> /\ fs[n.entry].kind = "file")
                   /\ n.tag = "directory" =>
                          /\ { kids[k] : k \in 1..Len(kids) } =
                                 IF n.entry = 0 \/ (fs[n.entry].kind = "dir"
                                                    /\ fs[n.entry].list_ok)
                                 THEN { c \in Entries :
                                          fs[c].parent = n.entry /\ ~Ignored(c) }
                                 ELSE {}
                          /\ \A i, j \in 1..Len(kids) :
                                 i < j =>
                                     /\ kids[i] # kids[j]
                                     /\ (fs[kids[i]].kind = "file")
                                            => (fs[kids[j]].kind = "file")
                                     /\ ((fs[kids[i]].kind = "file")
                                             = (fs[kids[j]].kind = "file"))
                                            => ~StrLess(Lower(fs[kids[j]].name),
                                                        Lower(fs[kids[i]].name))
                          /\ n.entry # 0 => n.name = fs[n.entry].name

\* the root lists a file, a directory "A" and a file in that order, and its node
\* holds the directory first and the two files in case-insensitive order
C8_Witness ==
    /\ structure # <<>>
    /\ Len(structure.children) = 3
    /\ Len(fs) = 3
    /\ fs[1].kind = "file" /\ fs[2].kind = "dir" /\ fs[3].kind = "file"
    /\ StrLess(fs[1].name, fs[3].name)
    /\ StrLess(Lower(fs[3].name), Lower(fs[1].name))
    /\ structure.children[1].entry = 2
    /\ structure.children[2].entry = 3
    /\ structure.children[3].entry = 1

\* the legal code points as the specification lists them
IsLegalCodePoint(c) ==
    c \in {9, 10, 13} \/ c \in 32..55295 \/ c \in 57344..65533 \/ c \in 65536..1114111

\* C9: _clean_xml_content returns a text of the same length that holds, at each
\* position, the input's code point when it is legal and U+FFFD otherwise; the
\* result holds legal code points only and is a fixed point of the function.
C9_Sanitize ==
    pc = "returned" =>
        /\ Len(res) = Len(arg)
        /\ \A i \in 1..Len(arg) :
               /\ res[i] = IF IsLegalCodePoint(arg[i]) THEN arg[i] ELSE 65533
               /\ IsLegalCodePoint(res[i])
        /\ clean_xml_content(res) = res

\* a text with a legal and an illegal code point has been cleaned
C9_Witness ==
    /\ pc = "returned"
    /\ Len(arg) = 2
    /\ IsLegalCodePoint(arg[1])
    /\ ~IsLegalCodePoint(arg[2])
    /\ res # arg

LowerExtension(name) ==
    SubSeq(name, 1, Len(name) - Len(PathSuffix(name))) \o Lower(PathSuffix(name))

RECURSIVE SumCounts(_)
\* the sum of the counts of a histogram
SumCounts(hist) ==
    IF hist = <<>> THEN 0 ELSE Head(hist)[2] + SumCounts(Tail(hist))

\* C12: in the metadata the pass returns, the counts of the file-type histogram
\* add up to total_files, also when the stat of a counted file fails.
C12_HistogramCoversFiles ==
    pc \in {"structure", "files", "done"} =>
        SumCounts(metadata.file_types) = metadata.total_files

\* C13: with include_binary false a readable file is text-eligible exactly when
\* its tag is not a member of the binary-tag set; with include_binary true every
\* readable file is text-eligible.
C13_EligibleByMembership ==
    (pc = "returned" /\ fs[arg].open_ok) =>
        res = (include_binary \/ detect_type(fs[arg].name) \notin binary_types)

=============================================================================
